---- MODULE Spec2Model ----
(***************************************************************************)
(* Model of imp/system_verilog/models/parameters.py: the four constant     *)
(* declaration nodes Parameter, ParameterDeclaration, LocalParam and       *)
(* LocalParamDeclaration, their constructors, the is_constant query and    *)
(* the __str__ rendering.                                                  *)
(*                                                                         *)
(* Python str values are TLA+ strings, Python list objects are sequences   *)
(* held in a heap and referred to by identity, and the nodes are heap      *)
(* objects whose attributes hold references, exactly as `self.names =      *)
(* names` and `self.parameter = parameter` store them.                     *)
(***************************************************************************)
EXTENDS Integers, Sequences, FiniteSets, TLC

VARIABLES lists, params, lparams, pdecls, ldecls, last

vars == <<lists, params, lparams, pdecls, ldecls, last>>
heap == <<lists, params, lparams, pdecls, ldecls>>

----------------------------------------------------------------------------
(* Bounds and value domains                                                *)

\* longest list of names a caller builds
MaxNames == 2

\* longest string drawn over Chars for a rendered name
MaxStrLen == 2

\* a slot of the heap that holds no object
Unalloc == [kind |-> "unalloc"]

\* object identities
ListIds == {1, 2}
ParamIds == {1, 2}
LParamIds == {1, 2}
PDeclIds == {1, 2}
LDeclIds == {1, 2}

\* Python values: None, int and str
None == [kind |-> "None"]
PyInt(n) == [kind |-> "int", val |-> n]
PyStr(s) == [kind |-> "str", val |-> s]

\* the characters names are drawn over: a letter, both quotes, the backslash
Chars == {"A", "'", "\"", "\\"}

RECURSIVE StrsOfLen(_)
StrsOfLen(n) ==
    IF n = 0 THEN {""}
    ELSE {s \o c : s \in StrsOfLen(n - 1), c \in Chars}

StrsUpTo(n) == UNION {StrsOfLen(k) : k \in 0..n}

\* DataType descriptors (imp.base.models.datatypes), opaque here
DTypes == {"DT_int32", "DT_logic"}

----------------------------------------------------------------------------
(* Conversions to text                                                     *)

\* str(dtype): the data type's textual tag
DataTypeStr(d) ==
    CASE d = "DT_int32" -> "int32"
      [] d = "DT_logic" -> "logic"

CharAt(s, i) == SubSeq(s, i, i)

HasChar(s, c) == \E i \in 1..Len(s) : CharAt(s, i) = c

\* repr() picks the quote: double quotes only when the string holds a single
\* quote and no double quote
ReprQuote(s) == IF HasChar(s, "'") /\ ~HasChar(s, "\"") THEN "\"" ELSE "'"

RECURSIVE ReprEscape(_, _)
ReprEscape(s, q) ==
    IF s = "" THEN ""
    ELSE LET c == CharAt(s, 1)
             e == IF c = q \/ c = "\\" THEN "\\" \o c ELSE c
         IN  e \o ReprEscape(SubSeq(s, 2, Len(s)), q)

\* repr(s) of a str
PyStrRepr(s) == LET q == ReprQuote(s) IN q \o ReprEscape(s, q) \o q

Digit(d) == CharAt("0123456789", d + 1)

RECURSIVE PyIntRepr(_)
PyIntRepr(n) ==
    IF n < 0 THEN "-" \o PyIntRepr(-n)
    ELSE IF n < 10 THEN Digit(n)
    ELSE PyIntRepr(n \div 10) \o Digit(n % 10)

\* a rendering that formats the value with `{v}` where the code writes `{v!r}`
PyReprAsStr(v) ==
    CASE v.kind = "None" -> "None"
      [] v.kind = "int" -> PyIntRepr(v.val)
      [] v.kind = "str" -> v.val

\* repr(v) of a value: what `{v!r}` formats
PyRepr(v) ==
    CASE v.kind = "None" -> "None"
      [] v.kind = "int" -> PyIntRepr(v.val)
      [] v.kind = "str" -> PyStrRepr(v.val)

----------------------------------------------------------------------------
(* Parameter                                                               *)

\* `not name` / `not names`: the empty str and the empty list are falsy
StrIsFalsy(s) == s = ""
ListIsFalsy(items) == items = <<>>

\* a constructor that forgets the check of the name
ParameterInitUnchecked(name, dtype, default) ==
    [status |-> "ok",
     obj |-> [kind |-> "Parameter", name |-> name, dtype |-> dtype,
              default |-> default]]

\* Parameter.__init__: the outcome of the call
ParameterInit(name, dtype, default) ==
    IF StrIsFalsy(name)
    THEN [status |-> "ValueError"]
    ELSE [status |-> "ok",
          obj |-> [kind |-> "Parameter", name |-> name, dtype |-> dtype,
                   default |-> default]]

\* Parameter.is_constant
ParameterIsConstant(p) == TRUE

\* Parameter.__str__
ParameterStr(p) ==
    "Parameter(" \o "name=" \o PyStrRepr(p.name) \o ", dtype="
        \o DataTypeStr(p.dtype) \o ", default=" \o PyRepr(p.default) \o ")"

----------------------------------------------------------------------------
(* LocalParam                                                              *)

\* LocalParam.__init__: the outcome of the call
LocalParamInit(name, dtype, value, comment) ==
    IF StrIsFalsy(name)
    THEN [status |-> "ValueError"]
    ELSE [status |-> "ok",
          obj |-> [kind |-> "LocalParam", name |-> name, dtype |-> dtype,
                   value |-> value, comment |-> comment]]

\* a query computed from the node instead of the fixed answer
LocalParamIsConstantComputed(p) == p.comment = None

\* LocalParam.is_constant
LocalParamIsConstant(p) == TRUE

\* a rendering that tests the comment's truth (`if self.comment:`)
LocalParamStrTruthy(p) ==
    LET args == "name=" \o PyStrRepr(p.name) \o ", dtype="
                    \o DataTypeStr(p.dtype) \o ", value=" \o PyRepr(p.value)
        more == IF p.comment # None /\ p.comment # PyStr("")
                THEN ", comment=" \o PyRepr(p.comment)
                ELSE ""
    IN  "LocalParam(" \o args \o more \o ")"

\* LocalParam.__str__
LocalParamStr(p) ==
    LET args == "name=" \o PyStrRepr(p.name) \o ", dtype="
                    \o DataTypeStr(p.dtype) \o ", value=" \o PyRepr(p.value)
        more == IF p.comment # None
                THEN ", comment=" \o PyRepr(p.comment)
                ELSE ""
    IN  "LocalParam(" \o args \o more \o ")"

----------------------------------------------------------------------------
(* Declarations: the attributes hold the references they were given        *)

\* a listing that drops the names it has already written
RECURSIVE NamesReprUnique(_)
NamesReprUnique(items) ==
    LET n == Len(items)
        seen == n > 1 /\ \E i \in 1..(n - 1) : items[i] = items[n]
    IN  IF n = 0 THEN ""
        ELSE IF n = 1 THEN PyStrRepr(items[1])
        ELSE IF seen THEN NamesReprUnique(SubSeq(items, 1, n - 1))
        ELSE NamesReprUnique(SubSeq(items, 1, n - 1)) \o ", "
                 \o PyStrRepr(items[n])

\* ', '.join(repr(n) for n in names)
RECURSIVE NamesRepr(_)
NamesRepr(items) ==
    IF items = <<>> THEN ""
    ELSE IF Len(items) = 1 THEN PyStrRepr(Head(items))
    ELSE PyStrRepr(Head(items)) \o ", " \o NamesRepr(Tail(items))

\* a constructor that also refuses a list with a repeated name
ParameterDeclarationInitNoRepeats(names, parameter) ==
    LET items == lists[names].items IN
    IF ListIsFalsy(items)
          \/ \E i, j \in 1..Len(items) : i # j /\ items[i] = items[j]
    THEN [status |-> "ValueError"]
    ELSE [status |-> "ok",
          obj |-> [kind |-> "ParameterDeclaration", names |-> names,
                   parameter |-> parameter]]

\* ParameterDeclaration.__init__(names, parameter), both given by reference
ParameterDeclarationInit(names, parameter) ==
    IF ListIsFalsy(lists[names].items)
    THEN [status |-> "ValueError"]
    ELSE [status |-> "ok",
          obj |-> [kind |-> "ParameterDeclaration", names |-> names,
                   parameter |-> parameter]]

\* ParameterDeclaration.__str__
ParameterDeclarationStr(d) ==
    "ParameterDeclaration(names=[" \o NamesRepr(lists[d.names].items)
        \o "], parameter=" \o ParameterStr(params[d.parameter]) \o ")"

\* LocalParamDeclaration.__init__(names, localparam), both given by reference
LocalParamDeclarationInit(names, localparam) ==
    IF ListIsFalsy(lists[names].items)
    THEN [status |-> "ValueError"]
    ELSE [status |-> "ok",
          obj |-> [kind |-> "LocalParamDeclaration", names |-> names,
                   localparam |-> localparam]]

\* repr() of an object whose class defines no __repr__ names its identity
ObjectRepr(cls, id) == "<" \o cls \o " object at " \o PyIntRepr(id) \o ">"

\* a rendering that formats the nested descriptor with `!r`, as the other
\* fields are
LocalParamDeclarationStrReprNested(d) ==
    "LocalParamDeclaration(names=[" \o NamesRepr(lists[d.names].items)
        \o "], localparam=" \o ObjectRepr("LocalParam", d.localparam) \o ")"

\* LocalParamDeclaration.__str__
LocalParamDeclarationStr(d) ==
    "LocalParamDeclaration(names=[" \o NamesRepr(lists[d.names].items)
        \o "], localparam=" \o LocalParamStr(lparams[d.localparam]) \o ")"

----------------------------------------------------------------------------
(* The heap                                                                *)

Allocated(h) == {i \in DOMAIN h : h[i] # Unalloc}

HasFree(h) == Allocated(h) # DOMAIN h

\* identities are handed out in order and never reused
FreeId(h) ==
    CHOOSE i \in DOMAIN h :
        /\ h[i] = Unalloc
        /\ \A j \in DOMAIN h : j < i => h[j] # Unalloc

\* the objects of each kind the client of Spec builds
ClientIds == {1}

CanAlloc(h) == HasFree(h) /\ FreeId(h) \in ClientIds

\* what the client of Spec passes to the constructors
HeapNames == {"", "A", "B"}
HeapIdents == {"", "A"}
HeapValues == {None, PyInt(8)}
HeapComments == {None, PyStr(""), PyStr("c")}

RECURSIVE SeqsOfLen(_, _)
SeqsOfLen(S, n) ==
    IF n = 0 THEN {<<>>}
    ELSE {Append(s, x) : s \in SeqsOfLen(S, n - 1), x \in S}

SeqsUpTo(S, n) == UNION {SeqsOfLen(S, k) : k \in 0..n}

Init ==
    /\ lists = [l \in ListIds |-> Unalloc]
    /\ params = [p \in ParamIds |-> Unalloc]
    /\ lparams = [p \in LParamIds |-> Unalloc]
    /\ pdecls = [d \in PDeclIds |-> Unalloc]
    /\ ldecls = [d \in LDeclIds |-> Unalloc]
    /\ last = [op |-> "start"]

----------------------------------------------------------------------------
(* Operations                                                              *)

\* the caller builds a list of names
NewList(items) ==
    /\ CanAlloc(lists)
    /\ lists' = [lists EXCEPT ![FreeId(lists)] = [kind |-> "list", items |-> items]]
    /\ last' = [op |-> "list", ret |-> FreeId(lists)]
    /\ UNCHANGED <<params, lparams, pdecls, ldecls>>

\* Parameter(name, dtype, default)
NewParameter(name, dtype, default) ==
    LET r == ParameterInit(name, dtype, default) IN
    /\ CanAlloc(params)
    /\ IF r.status = "ok"
       THEN /\ params' = [params EXCEPT ![FreeId(params)] = r.obj]
            /\ last' = [op |-> "Parameter", args |-> <<name, dtype, default>>,
                        status |-> "ok", ret |-> FreeId(params)]
       ELSE /\ params' = params
            /\ last' = [op |-> "Parameter", args |-> <<name, dtype, default>>,
                        status |-> r.status]
    /\ UNCHANGED <<lists, lparams, pdecls, ldecls>>

\* LocalParam(name, dtype, value, comment)
NewLocalParam(name, dtype, value, comment) ==
    LET r == LocalParamInit(name, dtype, value, comment) IN
    /\ CanAlloc(lparams)
    /\ IF r.status = "ok"
       THEN /\ lparams' = [lparams EXCEPT ![FreeId(lparams)] = r.obj]
            /\ last' = [op |-> "LocalParam",
                        args |-> <<name, dtype, value, comment>>,
                        status |-> "ok", ret |-> FreeId(lparams)]
       ELSE /\ lparams' = lparams
            /\ last' = [op |-> "LocalParam",
                        args |-> <<name, dtype, value, comment>>,
                        status |-> r.status]
    /\ UNCHANGED <<lists, params, pdecls, ldecls>>

\* ParameterDeclaration(names, parameter) on a list and a Parameter the caller holds
NewParameterDeclaration(l, p) ==
    LET r == ParameterDeclarationInit(l, p) IN
    /\ l \in Allocated(lists)
    /\ p \in Allocated(params)
    /\ CanAlloc(pdecls)
    /\ IF r.status = "ok"
       THEN /\ pdecls' = [pdecls EXCEPT ![FreeId(pdecls)] = r.obj]
            /\ last' = [op |-> "ParameterDeclaration",
                        args |-> <<lists[l].items, params[p]>>,
                        status |-> "ok", ret |-> FreeId(pdecls)]
       ELSE /\ pdecls' = pdecls
            /\ last' = [op |-> "ParameterDeclaration",
                        args |-> <<lists[l].items, params[p]>>,
                        status |-> r.status]
    /\ UNCHANGED <<lists, params, lparams, ldecls>>

\* LocalParamDeclaration(names, localparam) on a list and a LocalParam the caller holds
NewLocalParamDeclaration(l, p) ==
    LET r == LocalParamDeclarationInit(l, p) IN
    /\ l \in Allocated(lists)
    /\ p \in Allocated(lparams)
    /\ CanAlloc(ldecls)
    /\ IF r.status = "ok"
       THEN /\ ldecls' = [ldecls EXCEPT ![FreeId(ldecls)] = r.obj]
            /\ last' = [op |-> "LocalParamDeclaration",
                        args |-> <<lists[l].items, lparams[p]>>,
                        status |-> "ok", ret |-> FreeId(ldecls)]
       ELSE /\ ldecls' = ldecls
            /\ last' = [op |-> "LocalParamDeclaration",
                        args |-> <<lists[l].items, lparams[p]>>,
                        status |-> r.status]
    /\ UNCHANGED <<lists, params, lparams, pdecls>>

\* p.is_constant on a Parameter
GetParameterIsConstant(p) ==
    /\ p \in Allocated(params)
    /\ last' = [op |-> "Parameter.is_constant", self |-> p,
                ret |-> ParameterIsConstant(params[p])]
    /\ UNCHANGED heap

\* p.is_constant on a LocalParam
GetLocalParamIsConstant(p) ==
    /\ p \in Allocated(lparams)
    /\ last' = [op |-> "LocalParam.is_constant", self |-> p,
                ret |-> LocalParamIsConstant(lparams[p])]
    /\ UNCHANGED heap

\* str(p) on a Parameter
RenderParameter(p) ==
    /\ p \in Allocated(params)
    /\ last' = [op |-> "Parameter.__str__", self |-> p,
                ret |-> ParameterStr(params[p])]
    /\ UNCHANGED heap

\* str(p) on a LocalParam
RenderLocalParam(p) ==
    /\ p \in Allocated(lparams)
    /\ last' = [op |-> "LocalParam.__str__", self |-> p,
                ret |-> LocalParamStr(lparams[p])]
    /\ UNCHANGED heap

\* str(d) on a ParameterDeclaration
RenderParameterDeclaration(d) ==
    /\ d \in Allocated(pdecls)
    /\ last' = [op |-> "ParameterDeclaration.__str__", self |-> d,
                ret |-> ParameterDeclarationStr(pdecls[d])]
    /\ UNCHANGED heap

\* str(d) on a LocalParamDeclaration
RenderLocalParamDeclaration(d) ==
    /\ d \in Allocated(ldecls)
    /\ last' = [op |-> "LocalParamDeclaration.__str__", self |-> d,
                ret |-> LocalParamDeclarationStr(ldecls[d])]
    /\ UNCHANGED heap

\* the caller appends to a list it built: names.append(n)
CallerAppend(l, n) ==
    /\ l \in Allocated(lists)
    /\ Len(lists[l].items) < MaxNames
    /\ lists' = [lists EXCEPT ![l].items = Append(@, n)]
    /\ last' = [op |-> "list.append", self |-> l]
    /\ UNCHANGED <<params, lparams, pdecls, ldecls>>

\* the caller clears a list it built: names.clear()
CallerClear(l) ==
    /\ l \in Allocated(lists)
    /\ lists[l].items # <<>>
    /\ lists' = [lists EXCEPT ![l].items = <<>>]
    /\ last' = [op |-> "list.clear", self |-> l]
    /\ UNCHANGED <<params, lparams, pdecls, ldecls>>

\* the caller assigns an attribute of a Parameter it built: p.name = n
CallerSetParameterName(p, n) ==
    /\ p \in Allocated(params)
    /\ params[p].name # n
    /\ params' = [params EXCEPT ![p].name = n]
    /\ last' = [op |-> "Parameter.name=", self |-> p]
    /\ UNCHANGED <<lists, lparams, pdecls, ldecls>>

\* the caller assigns an attribute of a LocalParam it built: p.comment = c
CallerSetLocalParamComment(p, c) ==
    /\ p \in Allocated(lparams)
    /\ lparams[p].comment # c
    /\ lparams' = [lparams EXCEPT ![p].comment = c]
    /\ last' = [op |-> "LocalParam.comment=", self |-> p]
    /\ UNCHANGED <<lists, params, pdecls, ldecls>>

Next ==
    \/ \E items \in SeqsUpTo(HeapNames, MaxNames) : NewList(items)
    \/ \E n \in HeapIdents, t \in DTypes, v \in HeapValues : NewParameter(n, t, v)
    \/ \E n \in HeapIdents, t \in DTypes, v \in HeapValues, c \in HeapComments :
          NewLocalParam(n, t, v, c)
    \/ \E l \in ListIds, p \in ParamIds : NewParameterDeclaration(l, p)
    \/ \E l \in ListIds, p \in LParamIds : NewLocalParamDeclaration(l, p)
    \/ \E p \in ParamIds : GetParameterIsConstant(p)
    \/ \E p \in LParamIds : GetLocalParamIsConstant(p)
    \/ \E p \in ParamIds : RenderParameter(p)
    \/ \E p \in LParamIds : RenderLocalParam(p)
    \/ \E d \in PDeclIds : RenderParameterDeclaration(d)
    \/ \E d \in LDeclIds : RenderLocalParamDeclaration(d)
    \/ \E l \in ListIds, n \in HeapNames : CallerAppend(l, n)
    \/ \E l \in ListIds : CallerClear(l)
    \/ \E p \in ParamIds, n \in HeapIdents : CallerSetParameterName(p, n)
    \/ \E p \in LParamIds, c \in HeapComments : CallerSetLocalParamComment(p, c)

Spec == Init /\ [][Next]_vars

----------------------------------------------------------------------------
(* Rendering: heaps of constructed nodes, two of a kind, and the four      *)
(* __str__ methods applied to them                                         *)

\* names a rendered Parameter or LocalParam carries: all strings over Chars
RenderNames == StrsUpTo(MaxStrLen) \ {""}

\* defaults and values: None, ints, strs that read like them, and a str that
\* reads like a value followed by a comment
RenderValues ==
    {None, PyInt(8), PyInt(-10), PyStr("8"), PyStr("None"), PyStr(""),
     PyStr("8', comment='c")}

RenderComments == {None, PyStr(""), PyStr("c"), PyStr("None")}

\* elements of a declaration's list: plain names, the empty name, and one
\* that reads like two
RenderElems == {"A", "B", "", "A', 'B"}

RenderLists == SeqsUpTo(RenderElems, MaxNames) \ {<<>>}

MkParameter(n, t, v) == ParameterInit(n, t, v).obj

MkLocalParam(n, t, v, c) == LocalParamInit(n, t, v, c).obj

RenderParams ==
    {MkParameter(n, "DT_int32", None) : n \in RenderNames}
        \cup {MkParameter("A", t, v) : t \in DTypes, v \in RenderValues}

RenderLocalParams ==
    {MkLocalParam(n, "DT_int32", PyInt(8), None) : n \in RenderNames}
        \cup {MkLocalParam("A", t, v, c) :
                 t \in DTypes, v \in RenderValues, c \in RenderComments}

\* the descriptors the rendered declarations share their type through
NestedParams == {MkParameter("A", "DT_int32", None), MkParameter("A", "DT_int32", PyInt(8))}

NestedLocalParams ==
    {MkLocalParam("A", "DT_int32", PyInt(8), None),
     MkLocalParam("A", "DT_int32", PyInt(8), PyStr("c"))}

MkList(items) == [kind |-> "list", items |-> items]

NoLists == [l \in ListIds |-> Unalloc]
NoParams == [p \in ParamIds |-> Unalloc]
NoLParams == [p \in LParamIds |-> Unalloc]
NoPDecls == [d \in PDeclIds |-> Unalloc]
NoLDecls == [d \in LDeclIds |-> Unalloc]

\* two Parameters
InitParameters ==
    /\ params \in {[p \in ParamIds |-> IF p = 1 THEN a ELSE b] :
                      a \in RenderParams, b \in RenderParams}
    /\ lists = NoLists /\ lparams = NoLParams
    /\ pdecls = NoPDecls /\ ldecls = NoLDecls

\* two LocalParams
InitLocalParams ==
    /\ lparams \in {[p \in LParamIds |-> IF p = 1 THEN a ELSE b] :
                       a \in RenderLocalParams, b \in RenderLocalParams}
    /\ lists = NoLists /\ params = NoParams
    /\ pdecls = NoPDecls /\ ldecls = NoLDecls

TwoLists ==
    {[l \in ListIds |-> MkList(IF l = 1 THEN a ELSE b)] :
        a \in RenderLists, b \in RenderLists}

\* two ParameterDeclarations, each over its own list and Parameter
InitParameterDeclarations ==
    /\ lists \in TwoLists
    /\ params \in {[p \in ParamIds |-> IF p = 1 THEN a ELSE b] :
                      a \in NestedParams, b \in NestedParams}
    /\ pdecls = [d \in PDeclIds |-> ParameterDeclarationInit(d, d).obj]
    /\ lparams = NoLParams /\ ldecls = NoLDecls

\* two LocalParamDeclarations, each over its own list and LocalParam
InitLocalParamDeclarations ==
    /\ lists \in TwoLists
    /\ lparams \in {[p \in LParamIds |-> IF p = 1 THEN a ELSE b] :
                       a \in NestedLocalParams, b \in NestedLocalParams}
    /\ ldecls = [d \in LDeclIds |-> LocalParamDeclarationInit(d, d).obj]
    /\ params = NoParams /\ pdecls = NoPDecls

InitRender ==
    /\ \/ InitParameters
       \/ InitLocalParams
       \/ InitParameterDeclarations
       \/ InitLocalParamDeclarations
    /\ last = [op |-> "start"]

NextRender ==
    \/ \E p \in ParamIds : RenderParameter(p)
    \/ \E p \in LParamIds : RenderLocalParam(p)
    \/ \E d \in PDeclIds : RenderParameterDeclaration(d)
    \/ \E d \in LDeclIds : RenderLocalParamDeclaration(d)

SpecRender == InitRender /\ [][NextRender]_vars

----------------------------------------------------------------------------
(* Properties                                                              *)

StartsWith(s, pre) == Len(s) >= Len(pre) /\ SubSeq(s, 1, Len(pre)) = pre

EndsWith(s, suf) ==
    Len(s) >= Len(suf) /\ SubSeq(s, Len(s) - Len(suf) + 1, Len(s)) = suf

\* the names a declaration holds and the descriptor it refers to, by value
ParameterDeclarationValue(d) == <<lists[d.names].items, params[d.parameter]>>

LocalParamDeclarationValue(d) == <<lists[d.names].items, lparams[d.localparam]>>

\* C1: Parameter(name, dtype, default) and LocalParam(name, dtype, value,
\* comment) raise ValueError exactly when name is empty, and otherwise build a
\* node whose fields are the arguments given.
C1_ConstructorContract ==
    /\ last.op = "Parameter" =>
          /\ (last.args[1] = "") <=> (last.status = "ValueError")
          /\ last.args[1] # "" =>
                /\ last.status = "ok"
                /\ params[last.ret] =
                      [kind |-> "Parameter", name |-> last.args[1],
                       dtype |-> last.args[2], default |-> last.args[3]]
    /\ last.op = "LocalParam" =>
          /\ (last.args[1] = "") <=> (last.status = "ValueError")
          /\ last.args[1] # "" =>
                /\ last.status = "ok"
                /\ lparams[last.ret] =
                      [kind |-> "LocalParam", name |-> last.args[1],
                       dtype |-> last.args[2], value |-> last.args[3],
                       comment |-> last.args[4]]

C1_Witness ==
    /\ last.op = "Parameter"
    /\ last.status = "ok"
    /\ last.args = <<"A", "DT_logic", PyInt(8)>>

\* C2: ParameterDeclaration(names, parameter) and LocalParamDeclaration(names,
\* localparam) raise ValueError exactly when names is empty; any non-empty
\* names, repeats included, is accepted and held in the order given.
C2_DeclarationContract ==
    /\ last.op = "ParameterDeclaration" =>
          /\ (last.args[1] = <<>>) <=> (last.status = "ValueError")
          /\ last.args[1] # <<>> =>
                /\ last.status = "ok"
                /\ ParameterDeclarationValue(pdecls[last.ret]) = last.args
    /\ last.op = "LocalParamDeclaration" =>
          /\ (last.args[1] = <<>>) <=> (last.status = "ValueError")
          /\ last.args[1] # <<>> =>
                /\ last.status = "ok"
                /\ LocalParamDeclarationValue(ldecls[last.ret]) = last.args

C2_Witness ==
    /\ last.op = "ParameterDeclaration"
    /\ last.status = "ok"
    /\ last.args[1] = <<"B", "B">>

\* C3: a declaration whose names hold an empty identifier is refused with
\* ValueError.
C3_EmptyIdentifierRefused ==
    (/\ last.op \in {"ParameterDeclaration", "LocalParamDeclaration"}
     /\ \E i \in 1..Len(last.args[1]) : last.args[1][i] = "")
        => last.status = "ValueError"

\* C4: once a node is built no step changes its fields: a Parameter's and a
\* LocalParam's name stays what it was and non-empty, a declaration's names
\* stay what they were and non-empty.
C4_FieldsNeverChange ==
    [][/\ \A p \in Allocated(params) :
             params'[p] = params[p] /\ params'[p].name # ""
       /\ \A p \in Allocated(lparams) :
             lparams'[p] = lparams[p] /\ lparams'[p].name # ""
       /\ \A d \in Allocated(pdecls) :
             /\ ParameterDeclarationValue(pdecls[d])'
                   = ParameterDeclarationValue(pdecls[d])
             /\ lists'[pdecls'[d].names].items # <<>>
       /\ \A d \in Allocated(ldecls) :
             /\ LocalParamDeclarationValue(ldecls[d])'
                   = LocalParamDeclarationValue(ldecls[d])
             /\ lists'[ldecls'[d].names].items # <<>>]_vars

\* C5: a declaration owns its names and its descriptor: no later step of the
\* caller on the list or the descriptor it passed in changes the declaration's
\* names, its descriptor or its rendering.
C5_DeclarationOwnsItsParts ==
    [][/\ \A d \in Allocated(pdecls) :
             /\ lists'[pdecls'[d].names].items = lists[pdecls[d].names].items
             /\ params'[pdecls'[d].parameter] = params[pdecls[d].parameter]
             /\ ParameterDeclarationStr(pdecls[d])'
                   = ParameterDeclarationStr(pdecls[d])
       /\ \A d \in Allocated(ldecls) :
             /\ lists'[ldecls'[d].names].items = lists[ldecls[d].names].items
             /\ lparams'[ldecls'[d].localparam] = lparams[ldecls[d].localparam]
             /\ LocalParamDeclarationStr(ldecls[d])'
                   = LocalParamDeclarationStr(ldecls[d])]_vars

\* C6: is_constant of every Parameter and every LocalParam answers true, and
\* the query leaves every object as it was.
C6_IsConstantTrue ==
    [][last'.op \in {"Parameter.is_constant", "LocalParam.is_constant"}
          => last'.ret = TRUE /\ heap' = heap]_vars

C6_Witness ==
    /\ last.op = "LocalParam.is_constant"
    /\ last.ret = TRUE
    /\ lparams[last.self].comment = PyStr("c")

\* C7: the rendering of a LocalParam carries the comment annotation exactly
\* when comment is not None: with a comment, the empty one included, it ends
\* with the annotation after name, dtype and value; without, it closes right
\* after the value.
C7_CommentSuffix ==
    last.op = "LocalParam.__str__" =>
        LET p == lparams[last.self]
            upToValue == "LocalParam(name=" \o PyStrRepr(p.name) \o ", dtype="
                             \o DataTypeStr(p.dtype) \o ", value="
                             \o PyRepr(p.value)
        IN  /\ StartsWith(last.ret, upToValue)
            /\ IF p.comment = None
               THEN last.ret = upToValue \o ")"
               ELSE LET annotation == ", comment=" \o PyStrRepr(p.comment.val) \o ")"
                    IN  /\ EndsWith(last.ret, annotation)
                        /\ Len(last.ret) = Len(upToValue) + Len(annotation)

C7_Witness ==
    /\ last.op = "LocalParam.__str__"
    /\ lparams[last.self].comment = PyStr("")
    /\ EndsWith(last.ret, ", comment='')")

\* C8: two nodes of one type whose field values differ never render to the
\* same string.
C8_RenderInjective ==
    /\ last.op = "Parameter.__str__" =>
          \A q \in Allocated(params) :
              params[q] # params[last.self] => ParameterStr(params[q]) # last.ret
    /\ last.op = "LocalParam.__str__" =>
          \A q \in Allocated(lparams) :
              lparams[q] # lparams[last.self]
                  => LocalParamStr(lparams[q]) # last.ret
    /\ last.op = "ParameterDeclaration.__str__" =>
          \A q \in Allocated(pdecls) :
              ParameterDeclarationValue(pdecls[q])
                    # ParameterDeclarationValue(pdecls[last.self])
                  => ParameterDeclarationStr(pdecls[q]) # last.ret
    /\ last.op = "LocalParamDeclaration.__str__" =>
          \A q \in Allocated(ldecls) :
              LocalParamDeclarationValue(ldecls[q])
                    # LocalParamDeclarationValue(ldecls[last.self])
                  => LocalParamDeclarationStr(ldecls[q]) # last.ret

C8_Witness ==
    /\ last.op = "Parameter.__str__"
    /\ params[last.self].default = PyInt(8)
    /\ \E q \in Allocated(params) :
          params[q] = [params[last.self] EXCEPT !.default = PyStr("8")]

\* C9: the rendering depends on the field values alone: two nodes of one type
\* built with the same field values, whichever objects they are, render to the
\* same string.
C9_RenderDeterministic ==
    /\ last.op = "Parameter.__str__" =>
          \A q \in Allocated(params) :
              params[q] = params[last.self] => ParameterStr(params[q]) = last.ret
    /\ last.op = "LocalParam.__str__" =>
          \A q \in Allocated(lparams) :
              lparams[q] = lparams[last.self]
                  => LocalParamStr(lparams[q]) = last.ret
    /\ last.op = "ParameterDeclaration.__str__" =>
          \A q \in Allocated(pdecls) :
              ParameterDeclarationValue(pdecls[q])
                    = ParameterDeclarationValue(pdecls[last.self])
                  => ParameterDeclarationStr(pdecls[q]) = last.ret
    /\ last.op = "LocalParamDeclaration.__str__" =>
          \A q \in Allocated(ldecls) :
              LocalParamDeclarationValue(ldecls[q])
                    = LocalParamDeclarationValue(ldecls[last.self])
                  => LocalParamDeclarationStr(ldecls[q]) = last.ret

C9_Witness ==
    /\ last.op = "LocalParamDeclaration.__str__"
    /\ \E q \in Allocated(ldecls) :
          /\ q # last.self
          /\ ldecls[q] # ldecls[last.self]
          /\ LocalParamDeclarationValue(ldecls[q])
                = LocalParamDeclarationValue(ldecls[last.self])

\* the first n names, each written once, in order
RECURSIVE NamesListing(_, _)
NamesListing(items, n) ==
    IF n = 0 THEN ""
    ELSE IF n = 1 THEN PyStrRepr(items[1])
    ELSE NamesListing(items, n - 1) \o ", " \o PyStrRepr(items[n])

\* out is open, then the listing of items, then close
Encloses(out, open, items, close) ==
    LET listing == NamesListing(items, Len(items)) IN
    /\ StartsWith(out, open)
    /\ EndsWith(out, close)
    /\ Len(out) = Len(open) + Len(listing) + Len(close)
    /\ SubSeq(out, Len(open) + 1, Len(out) - Len(close)) = listing

\* C10: the rendering of a declaration lists every element of names once per
\* occurrence, in order, and then the nested descriptor exactly as it renders
\* on its own.
C10_DeclarationRendering ==
    /\ last.op = "ParameterDeclaration.__str__" =>
          LET d == pdecls[last.self] IN
          Encloses(last.ret, "ParameterDeclaration(names=[", lists[d.names].items,
                   "], parameter=" \o ParameterStr(params[d.parameter]) \o ")")
    /\ last.op = "LocalParamDeclaration.__str__" =>
          LET d == ldecls[last.self] IN
          Encloses(last.ret, "LocalParamDeclaration(names=[", lists[d.names].items,
                   "], localparam=" \o LocalParamStr(lparams[d.localparam]) \o ")")

C10_Witness ==
    /\ last.op = "ParameterDeclaration.__str__"
    /\ lists[pdecls[last.self].names].items = <<"B", "A">>
    /\ params[pdecls[last.self].parameter].default = PyInt(8)

====
